---- MODULE Spec2Model ----
\* A model of pygame-tutor's code viewer (core/code_viewer.py), the base
\* lesson that owns it (core/base.py) and the frame loop that drives the
\* current lesson (main.py).
EXTENDS Integers, Sequences, FiniteSets, TLC

\* ---------------------------------------------------------------- constants

\* CodeViewer.__init__: the display and scrolling settings.
visible_lines == 15
line_height == 24
scroll_step == 3
scroll_repeat_delay == 300

\* The line feed str.splitlines splits at. A text is a sequence of characters.
NL == "\n"

\* Time since the last scroll step is kept up to this many ms: update only
\* compares it with scroll_repeat_delay, so every larger value behaves alike.
MaxElapsed == 301

\* The events that wait in pygame's queue between two frames: at most this
\* many.
MaxQueue == 1

Max(a, b) == IF a >= b THEN a ELSE b
Min(a, b) == IF a <= b THEN a ELSE b

\* ------------------------------------------------------------------- inputs

\* The milliseconds that pass between two operations, and that clock.tick(60)
\* lets pass between two frames (the frame rate is capped, not fixed: a frame
\* may take any longer): a third of the repeat delay, and just more than it.
FrameMs == {100, 301}

\* The lines of the classes' source texts, without their line ends: the four
\* lines of the spec's example first; every fifth line is blank, the others
\* are distinct, and each rule of the highlighter is met alone and together
\* with later ones.
SourceFile ==
    <<<<"d", "e", "f", " ", "f", "(", ")", ":">>,
      <<" ", " ", " ", " ", "p", "a", "s", "s">>,
      <<"#", " ", "n", "o", "t", "e">>,
      <<"x", " ", "=", " ", "1">>,
      <<>>,
      <<"i", "f", " ", "x", " ", "=", "=", " ", "1", ":", " ", " ", "#", " ", "a">>,
      <<"\"", "\"", "\"", "d", "o", "c", "\"", "\"", "\"">>,
      <<"y", " ", "+", "=", " ", "1", " ", " ", "#", " ", "b">>,
      <<"c", "l", "a", "s", "s", " ", "A", ":">>,
      <<>>,
      <<" ", " ", "d", "e", "f", " ", "g", "(", ")", ":", " ", "#", " ", "i", "f", " ", "x">>,
      <<"'", "'", "'", "a", " ", "=", " ", "#", "'", "'", "'">>,
      <<" ", " ", " ", " ", "e", "l", "s", "e", ":">>,
      <<"z", " ", "-", "=", " ", "2">>,
      <<>>,
      <<"f", "o", "r", " ", "i", " ", "i", "n", " ", "x", ":", " ", "\"", "\"", "\"">>,
      <<" ", " ", "\"", "\"", "\"", " ", "i", "f", " ", "y">>,
      <<"p", "r", "i", "n", "t", "(", "\"", "#", "\"", ")">>,
      <<"u", "n", "d", "e", "f", " ", "x">>,
      <<>>,
      <<"w", "h", "i", "l", "e", " ", "x", ":", " ", "y", " ", "=", " ", "2">>,
      <<"r", "e", "t", "u", "r", "n", " ", "x", " ">>,
      <<" ", " ", "'", "'", "'">>>>

\* Line i of a class's source text.
SourceLine(i) == SourceFile[i]

\* A source text of n lines, each ended by a line feed, as inspect.getsource
\* returns it.
RECURSIVE SourceText(_)
SourceText(n) ==
    IF n = 0 THEN <<>> ELSE SourceText(n - 1) \o SourceLine(n) \o <<NL>>

\* The lengths, in lines, of the classes' source texts: the 4 lines of the
\* spec's highlighting example (shorter than the window), one line longer
\* than the window, the 20 lines of the spec's scrolling example, and longer.
SourceSizes == {4, 16, 20, 23}

\* Class objects: one per source size, and one whose source cannot be
\* obtained (inspect.getsource raises OSError for it); kind is the class
\* whose methods the object has.
ClassOfKind(kind, n) == [has_source |-> TRUE, n |-> n, kind |-> kind]
ClassWithSource(n) == ClassOfKind("BaseLesson", n)
ClassWithoutSource == [has_source |-> FALSE, n |-> 0, kind |-> "BaseLesson"]
ClassObjs == {ClassWithSource(n) : n \in SourceSizes} \cup {ClassWithoutSource}

getsource(class_obj) == SourceText(class_obj.n)

\* Keys and events.
ScrollKeys == {"K_j", "K_k"}
ViewerKeys == {"K_s", "K_j", "K_k", "K_SPACE"}
KeyDown(k) == [type |-> "KEYDOWN", key |-> k]
KeyUp(k) == [type |-> "KEYUP", key |-> k]
MouseMotion == [type |-> "MOUSEMOTION", key |-> "none"]
MouseMotionAt(x) == [type |-> "MOUSEMOTION", key |-> "none", pos |-> x]
MouseButtonDown == [type |-> "MOUSEBUTTONDOWN", key |-> "none"]
NoArg == [type |-> "none", key |-> "none"]

\* ------------------------------------------------------------- CodeViewer

\* str.splitlines: the lines of text, split at line feeds; a text's last line
\* needs no line feed, and a final line feed opens no further line.
RECURSIVE splitlines(_)
splitlines(text) ==
    LET feeds == {i \in 1..Len(text) : text[i] = NL} IN
    IF Len(text) = 0 THEN <<>>
    ELSE IF feeds = {} THEN <<text>>
    ELSE LET first == CHOOSE i \in feeds : \A j \in feeds : i <= j IN
         <<SubSeq(text, 1, first - 1)>>
            \o splitlines(SubSeq(text, first + 1, Len(text)))

\* code_surface before the first _generate_surface. A surface is its rows,
\* and new tells a pygame.Surface made in the running operation from one
\* that an earlier operation made.
None == [created |-> FALSE, new |-> FALSE, rows |-> <<>>]

\* The viewer as an operation finds it: its surface is an earlier one's.
Found(v) == [v EXCEPT !.code_surface.new = FALSE]

\* What an operation of the viewer gives back: the viewer after it, its
\* return value, and the exception it raised ("none" when it returned).
Result(v, ret, exc) == [v |-> v, ret |-> ret, raised |-> exc]

\* CodeViewer.__init__, ticks being pygame.time.get_ticks() at that time
\* (last_scroll_time = 0, so ticks is also the time since it).
CodeViewerNew(ticks) ==
    [show_code |-> FALSE,
     code_scroll |-> 0,
     code_lines |-> <<>>,
     code_surface |-> None,
     since_scroll |-> ticks,
     scroll_direction |-> 0]

\* The number of rows _generate_surface renders: its loop runs over the
\* visible rows and breaks at the first row past the end of the buffer.
RowCount(v) ==
    Max(0, Min(visible_lines, Len(v.code_lines) - v.code_scroll))

\* settings/constants.py, the colours the viewer uses.
COLORS ==
    [background |-> <<26, 27, 38>>,
     text |-> <<192, 202, 245>>,
     highlight |-> <<125, 207, 255>>,
     accent |-> <<158, 206, 106>>,
     Purple |-> <<204, 153, 255>>,
     Green |-> <<158, 206, 106>>,
     Blue |-> <<125, 207, 255>>]

\* str.strip, str.startswith with a tuple of prefixes, and the test
\* "any(word in line for word in words)".
Spaces == {" ", "\t"}

strip(line) ==
    LET inked == {i \in 1..Len(line) : line[i] \notin Spaces} IN
    IF inked = {} THEN <<>>
    ELSE SubSeq(line,
                CHOOSE i \in inked : \A j \in inked : i <= j,
                CHOOSE i \in inked : \A j \in inked : i >= j)

startswith(line, prefixes) ==
    \E prefix \in prefixes :
        /\ Len(prefix) <= Len(line)
        /\ SubSeq(line, 1, Len(prefix)) = prefix

any_in(words, line) ==
    \E word \in words :
        \E k \in 0..(Len(line) - Len(word)) :
            SubSeq(line, k + 1, k + Len(word)) = word

\* The words of the highlighting rules.
Definitions == {<<"d", "e", "f", " ">>, <<"c", "l", "a", "s", "s", " ">>}
ControlFlow == {<<"i", "f", " ">>, <<"e", "l", "s", "e", ":">>,
                <<"f", "o", "r", " ">>, <<"w", "h", "i", "l", "e", " ">>}
TripleQuotes == {<<"\"", "\"", "\"">>, <<"'", "'", "'">>}
CommentMark == {<<"#">>}
Operators == {<<"=">>, <<"+", "=">>, <<"-", "=">>, <<"=", "=">>}

\* The chain with the operator rule before the comment rule.
line_color_operator_first(line) ==
    IF startswith(strip(line), Definitions) THEN COLORS.accent
    ELSE IF any_in(ControlFlow, line) THEN COLORS.Blue
    ELSE IF startswith(strip(line), TripleQuotes) THEN COLORS.Purple
    ELSE IF any_in(Operators, line) THEN COLORS.Green
    ELSE IF any_in(CommentMark, line) THEN COLORS.highlight
    ELSE COLORS.text

\* _generate_surface, the colour of a line: the if/elif chain of the
\* highlighting rules.
line_color(line) ==
    IF startswith(strip(line), Definitions) THEN COLORS.accent
    ELSE IF any_in(ControlFlow, line) THEN COLORS.Blue
    ELSE IF startswith(strip(line), TripleQuotes) THEN COLORS.Purple
    ELSE IF any_in(CommentMark, line) THEN COLORS.highlight
    ELSE IF any_in(Operators, line) THEN COLORS.Green
    ELSE COLORS.text

\* line_color, for every line of the classes' sources.
LineColors ==
    [line \in {SourceLine(i) : i \in 1..Len(SourceFile)} |-> line_color(line)]

\* What binary floating point takes from 255 * ((1 - i / 15) / 0.2) before
\* int() truncates it: 1 - 13/15 and 1 - 14/15 are rounded to just under 2/15
\* and 1/15, so the products fall just short of 170 and 85. (i / 15 / 0.2 is
\* exact enough on the upper rows, and 3/15 and 12/15 are rounded to the
\* floats 0.2 and 0.8 themselves.)
RoundedBelow(i) == IF (5 * 255 * (visible_lines - i)) % visible_lines = 0
                   THEN 1 ELSE 0

\* The fade that ends at 0 on the last row of the window.
line_alpha_to_zero(i) ==
    IF 5 * i < visible_lines THEN (5 * 255 * i) \div visible_lines
    ELSE IF 5 * i > 4 * visible_lines
    THEN (5 * 255 * (visible_lines - 1 - i)) \div visible_lines
    ELSE 255

\* _generate_surface, the alpha of row i (0 for the first row):
\* pos_ratio = i / visible_lines; int(255 * (pos_ratio / 0.2)) below 0.2,
\* int(255 * ((1 - pos_ratio) / 0.2)) above 0.8, else 255.
line_alpha(i) ==
    IF 5 * i < visible_lines THEN (5 * 255 * i) \div visible_lines
    ELSE IF 5 * i > 4 * visible_lines
    THEN (5 * 255 * (visible_lines - i)) \div visible_lines - RoundedBelow(i)
    ELSE 255

_generate_surface(v) ==
    [v EXCEPT !.code_surface =
        [created |-> TRUE,
         new |-> TRUE,
         rows |-> [i \in 1..RowCount(v) |->
                      [y |-> (i - 1) * line_height,
                       alpha |-> line_alpha(i - 1),
                       color |-> LineColors[v.code_lines[i + v.code_scroll]],
                       line |-> v.code_lines[i + v.code_scroll]]]]]

\* _scroll without its upper bound.
_scroll_no_upper(v, lines) ==
    _generate_surface([v EXCEPT !.code_scroll = Max(0, v.code_scroll + lines)])

\* _scroll without its call of _generate_surface.
_scroll_stale(v, lines) ==
    [v EXCEPT !.code_scroll =
        Max(0, Min(v.code_scroll + lines, Len(v.code_lines) - visible_lines))]

_scroll(v, lines) ==
    _generate_surface(
        [v EXCEPT !.code_scroll =
            Max(0, Min(v.code_scroll + lines,
                       Len(v.code_lines) - visible_lines))])

\* inspect.getsource(class_obj).splitlines(), for every class with a source.
SourceLines ==
    [n \in SourceSizes |-> splitlines(getsource(ClassWithSource(n)))]

\* getsource raises before code_lines is assigned.
load_source(v, class_obj) ==
    IF ~class_obj.has_source
    THEN Result(v, FALSE, "OSError")
    ELSE Result(_generate_surface(
                    [v EXCEPT !.code_lines = SourceLines[class_obj.n]]),
                FALSE, "none")

\* The KEYDOWN branch with a toggle that goes back to the first line.
handle_keydown_reset(v, key) ==
    IF key = "K_s"
    THEN Result([v EXCEPT !.show_code = ~v.show_code, !.code_scroll = 0],
                TRUE, "none")
    ELSE IF v.show_code /\ key = "K_j"
    THEN Result([_scroll(v, scroll_step) EXCEPT
                    !.scroll_direction = 1, !.since_scroll = 0],
                TRUE, "none")
    ELSE IF v.show_code /\ key = "K_k"
    THEN Result([_scroll(v, -scroll_step) EXCEPT
                    !.scroll_direction = -1, !.since_scroll = 0],
                TRUE, "none")
    ELSE Result(v, FALSE, "none")

\* The KEYDOWN branch with scroll keys that do not look at show_code.
handle_keydown_hidden(v, key) ==
    IF key = "K_s"
    THEN Result([v EXCEPT !.show_code = ~v.show_code], TRUE, "none")
    ELSE IF key = "K_j"
    THEN Result([_scroll(v, scroll_step) EXCEPT
                    !.scroll_direction = 1, !.since_scroll = 0],
                TRUE, "none")
    ELSE IF key = "K_k"
    THEN Result([_scroll(v, -scroll_step) EXCEPT
                    !.scroll_direction = -1, !.since_scroll = 0],
                TRUE, "none")
    ELSE Result(v, FALSE, "none")

\* handle_events, the KEYDOWN branch: the toggle key flips show_code; the
\* scroll keys act only while the viewer is shown.
handle_keydown(v, key) ==
    IF key = "K_s"
    THEN Result([v EXCEPT !.show_code = ~v.show_code], TRUE, "none")
    ELSE IF v.show_code /\ key = "K_j"
    THEN Result([_scroll(v, scroll_step) EXCEPT
                    !.scroll_direction = 1, !.since_scroll = 0],
                TRUE, "none")
    ELSE IF v.show_code /\ key = "K_k"
    THEN Result([_scroll(v, -scroll_step) EXCEPT
                    !.scroll_direction = -1, !.since_scroll = 0],
                TRUE, "none")
    ELSE Result(v, FALSE, "none")

\* The KEYUP branch with scroll keys that are read only while the viewer is
\* shown.
handle_keyup_shown(v, key) ==
    IF v.show_code /\ key \in ScrollKeys
    THEN Result([v EXCEPT !.scroll_direction = 0], TRUE, "none")
    ELSE Result(v, FALSE, "none")

\* handle_events, the KEYUP branch.
handle_keyup(v, key) ==
    IF key \in ScrollKeys
    THEN Result([v EXCEPT !.scroll_direction = 0], TRUE, "none")
    ELSE Result(v, FALSE, "none")

handle_events(v, event) ==
    IF event.type = "KEYDOWN" THEN handle_keydown(v, event.key)
    ELSE IF event.type = "KEYUP" THEN handle_keyup(v, event.key)
    ELSE Result(v, FALSE, "none")

\* CodeViewer.update: the repeat step while a scroll key is held.
update(v) ==
    IF v.scroll_direction # 0 /\ v.since_scroll > scroll_repeat_delay
    THEN Result([_scroll(v, v.scroll_direction) EXCEPT !.since_scroll = 0],
                FALSE, "none")
    ELSE Result(v, FALSE, "none")

\* The footer text of draw: "Lines a-b of n".
Footer(v) ==
    [what |-> "footer",
     a |-> v.code_scroll + 1,
     b |-> Min(v.code_scroll + visible_lines, Len(v.code_lines)),
     n |-> Len(v.code_lines),
     rows |-> <<>>]

Drawn(what) == [what |-> what, a |-> 0, b |-> 0, n |-> 0, rows |-> <<>>]

\* CodeViewer.draw: what it puts on the screen, in order, and the exception
\* it raises (screen.blit of a code_surface that is still None is a
\* TypeError).
draw(v) ==
    IF ~v.show_code THEN [out |-> <<>>, raised |-> "none"]
    ELSE IF ~v.code_surface.created
    THEN [out |-> <<Drawn("overlay"), Drawn("container")>>,
          raised |-> "TypeError"]
    ELSE [out |-> <<Drawn("overlay"), Drawn("container"),
                    [Drawn("code_surface") EXCEPT !.rows = v.code_surface.rows],
                    Footer(v)>>,
          raised |-> "none"]

\* The time since the last scroll step, d ms later.
Later(v, d) == [v EXCEPT !.since_scroll = Min(v.since_scroll + d, MaxElapsed)]

\* ---------------------------------------------------------------- lessons

\* The lesson classes of the lessons directory.
LessonKinds ==
    {"Lesson00About", "Lesson01Comet", "Lesson02Physics", "Lesson03Input",
     "Lesson04Breakout", "Lesson05Arkanoid"}

\* Lesson01Comet.colors has five colours.
CometColors == 5

\* Lesson02Physics starts with three balls; gravity and elasticity are kept
\* in tenths (0.5 and 0.8 at the start). Of the balls' positions, speeds and
\* trails only this is kept: whether the first balls have moved since they
\* were made.
StartBalls == 3

\* Lesson03Input.display_duration and Lesson04Breakout.key_display_duration,
\* in ms.
display_duration == 1000
key_display_duration == 500

\* Lesson04Breakout starts with three lives.
StartLives == 3

\* Lesson04Breakout: _create_bricks adds brick_rows rows of brick_cols
\* bricks; the paddle moves paddle_speed pixels in an update and is a fifth
\* of the screen wide, 200 at most.
brick_rows == 5
brick_cols == 10
paddle_speed == 8
paddle_width(width) == Min(200, width \div 5)

\* The width of the display the lessons of LessonSpec and NavSpec get.
DisplayWidth == 1920

\* _create_bricks appends a field of bricks, all visible, to the list it
\* finds. Of the list two things are kept: how many bricks it holds, and
\* whether "all", "some" or "none" of them are visible.
_create_bricks(l) ==
    [l EXCEPT !.bricks = l.bricks + brick_rows * brick_cols,
              !.visible = IF l.bricks = 0 \/ l.visible = "all" THEN "all"
                          ELSE "some"]

\* Lesson04Breakout on a screen of some width, as __init__ leaves it. Of the
\* ball only the place is kept: "start" and "reset" are the two places the
\* code puts it at, "moving" is any other place on the screen, "below" is
\* under the bottom edge.
NewBreakout(width) ==
    _create_bricks(
        [kind |-> "Lesson04Breakout", width |-> width,
         paddle_x |-> width \div 2 - 100, ball |-> "start",
         bricks |-> 0, visible |-> "all", score |-> 0,
         game_active |-> FALSE, lives |-> StartLives,
         key_h_pressed |-> FALSE, key_l_pressed |-> FALSE,
         key_age |-> key_display_duration + 1])

\* Lesson05Arkanoid: the platform's x is kept relative to game_rect.left; it
\* starts at 200, the platform is 100 wide and the game area 500.
PlatformStart == 200
PlatformWidth == 100
GameWidth == 500
PlatformSpeed == 5

\* A lesson's own attributes (those next to its viewer) as its constructor
\* sets them, by the kind of its class; BaseLesson has none. Positions of
\* balls, comets, players and bricks are not kept, nor are random colours.
NewLesson(kind) ==
    CASE kind = "Lesson00About" -> [kind |-> kind, current_node |-> "none"]
      [] kind = "Lesson01Comet" -> [kind |-> kind, current_color |-> 0]
      [] kind = "Lesson02Physics" ->
            [kind |-> kind, balls |-> StartBalls, gravity |-> 5,
             elasticity |-> 8, elasticity_exact |-> TRUE, moved |-> FALSE]
      [] kind = "Lesson03Input" ->
            [kind |-> kind, active_key |-> "none", key_age |-> 0]
      [] kind = "Lesson04Breakout" -> NewBreakout(DisplayWidth)
      [] kind = "Lesson05Arkanoid" ->
            [kind |-> kind, platform_x |-> PlatformStart,
             game_over |-> FALSE, victory |-> FALSE,
             move_left |-> FALSE, move_right |-> FALSE]
      [] OTHER -> [kind |-> kind]

\* A lesson's time-based attributes, d ms later: the time since the key of
\* Lesson03Input was pressed (kept up to display_duration), and the time
\* since key_press_time of Lesson04Breakout (kept up to just more than
\* key_display_duration).
LessonLater(l, d) ==
    IF l.kind = "Lesson03Input" /\ l.active_key # "none"
    THEN [l EXCEPT !.key_age = Min(l.key_age + d, display_duration)]
    ELSE IF l.kind = "Lesson04Breakout" /\ (l.key_h_pressed \/ l.key_l_pressed)
    THEN [l EXCEPT !.key_age = Min(l.key_age + d, key_display_duration + 1)]
    ELSE l

\* What a method of a lesson gives back: the lesson's attributes and its
\* viewer after it, its return value, and the exception it raised.
Acted(l, v, ret, exc) == [lesson |-> l, v |-> v, ret |-> ret, raised |-> exc]

\* ------------------------------------------------------------------ state

VARIABLES
    code_viewer,           \* the CodeViewer of the current lesson
    keys_down,             \* the scroll keys the user holds down
    last,                  \* the last operation, its argument and its results
    raised,                \* the uncaught exception, "none" while there is none
    queue,                 \* the events posted since the last frame
    flipped,               \* which of the display's two buffers is shown
    lessons,               \* Slideshow.lessons
    current_lesson_index,  \* Slideshow.current_lesson_index
    running,               \* Slideshow.run's loop flag
    lesson,                \* the current lesson's own attributes
    lessons_dir,           \* the files of LESSONS_DIR, as glob lists them
    stdout                 \* the lines load_lessons has printed

vars == <<code_viewer, keys_down, last, raised, queue, flipped, lessons,
          current_lesson_index, running, lesson, lessons_dir, stdout>>

shell == <<queue, flipped, lessons, current_lesson_index, running, lesson>>

disk == <<lessons_dir, stdout>>

Last(op, arg, ret, out) == [op |-> op, arg |-> arg, ret |-> ret, out |-> out]

\* pygame.time.get_ticks() when a viewer is constructed: right after
\* pygame.init(), or any time later.
TicksAtInit == {0, MaxElapsed}

\* The keyboard sends KEYDOWN for a key that is up and KEYUP for a key that is
\* down (key repeat is off). Only the scroll keys are tracked: the KEYUP of
\* any other key is ignored by every handler.
Possible(event, keys) ==
    \/ event.type \notin {"KEYDOWN", "KEYUP"}
    \/ event.key \notin ScrollKeys
    \/ event.type = "KEYDOWN" /\ event.key \notin keys
    \/ event.type = "KEYUP" /\ event.key \in keys

KeysAfter(event, keys) ==
    IF event.key \notin ScrollKeys THEN keys
    ELSE IF event.type = "KEYDOWN" THEN keys \cup {event.key}
    ELSE IF event.type = "KEYUP" THEN keys \ {event.key}
    ELSE keys

\* ------------------------------------------- the CodeViewer, operation-wise

ViewerEvents ==
    {KeyDown(k) : k \in ViewerKeys} \cup {KeyUp(k) : k \in ViewerKeys}
        \cup {MouseMotion}

Init ==
    /\ code_viewer \in {CodeViewerNew(t) : t \in TicksAtInit}
    /\ keys_down \in SUBSET ScrollKeys
    /\ last = Last("__init__", NoArg, FALSE, <<>>)
    /\ raised = "none"
    /\ queue = <<>>
    /\ flipped = FALSE
    /\ lessons = <<>>
    /\ current_lesson_index = 0
    /\ running = FALSE
    /\ lesson = NewLesson("BaseLesson")
    /\ lessons_dir = <<>>
    /\ stdout = <<>>

LoadSource(class_obj) ==
    LET r == load_source(Found(code_viewer), class_obj) IN
    /\ raised = "none"
    /\ code_viewer' = r.v
    /\ raised' = r.raised
    /\ last' = Last("load_source", [type |-> "class", key |-> "none"] @@ class_obj,
                    r.ret, <<>>)
    /\ UNCHANGED <<keys_down, shell, disk>>

HandleEvents(event) ==
    LET r == handle_events(Found(code_viewer), event) IN
    /\ raised = "none"
    /\ Possible(event, keys_down)
    /\ code_viewer' = r.v
    /\ keys_down' = KeysAfter(event, keys_down)
    /\ raised' = r.raised
    /\ last' = Last("handle_events", event, r.ret, <<>>)
    /\ UNCHANGED <<shell, disk>>

Update ==
    LET r == update(Found(code_viewer)) IN
    /\ raised = "none"
    /\ code_viewer' = r.v
    /\ raised' = r.raised
    /\ last' = Last("update", NoArg, r.ret, <<>>)
    /\ UNCHANGED <<keys_down, shell, disk>>

Draw ==
    LET r == draw(Found(code_viewer)) IN
    /\ raised = "none"
    /\ code_viewer' = Found(code_viewer)
    /\ raised' = r.raised
    /\ last' = Last("draw", NoArg, FALSE, r.out)
    /\ UNCHANGED <<keys_down, shell, disk>>

\* Time passes between two operations.
ClockAdvance(d) ==
    /\ raised = "none"
    /\ code_viewer' = Later(Found(code_viewer), d)
    /\ last' = Last("clock", NoArg, FALSE, <<>>)
    /\ UNCHANGED <<keys_down, raised, shell, disk>>

Next ==
    \/ \E class_obj \in ClassObjs : LoadSource(class_obj)
    \/ \E event \in ViewerEvents : HandleEvents(event)
    \/ Update
    \/ Draw
    \/ \E d \in FrameMs : ClockAdvance(d)

Spec == Init /\ [][Next]_vars

\* ------------------------------------------------ BaseLesson and Slideshow

\* BaseLesson.__init__: a new viewer, loaded with the lesson class's source.
BaseLessonNew(class_obj, ticks) == load_source(CodeViewerNew(ticks), class_obj)

\* BaseLesson.handle_events: the viewer's.
lesson_handle_events(v, event) == handle_events(v, event)

\* BaseLesson.update(dt): returns False and touches nothing; the viewer's
\* update is not among its calls.
lesson_update(v) == Result(v, FALSE, "none")

\* BaseLesson.draw: background, title, the hint line while the code is
\* hidden, then the viewer.
lesson_draw(v) ==
    LET r == draw(v) IN
    [out |-> <<Drawn("background"), Drawn("title")>>
             \o (IF ~v.show_code THEN <<Drawn("hint")>> ELSE <<>>)
             \o r.out,
     raised |-> r.raised]

\* ------------------------------------------------- the lesson classes

\* Each handle_events calls BaseLesson.handle_events first and tests
\* show_code, where it tests it, after that call. Each draw calls
\* BaseLesson.draw first, which ends with the viewer's draw.

Content(names) == [i \in 1..Len(names) |-> Drawn(names[i])]

\* BaseLesson.draw, followed by what a lesson draws itself.
draw_with(v, names) ==
    LET r == lesson_draw(v) IN
    IF r.raised # "none" THEN r
    ELSE [out |-> r.out \o Content(names), raised |-> "none"]

\* Lesson00About. The player's position is not kept: whether the player
\* touches a node after an update is a free choice. Its draw fills the
\* screen with the background colour again before the stars.
about_handle_events(l, v, event) ==
    LET r == lesson_handle_events(v, event) IN
    IF /\ ~r.v.show_code
       /\ event.type = "KEYDOWN"
       /\ event.key = "K_SPACE"
       /\ l.current_node # "none"
    THEN Acted([l EXCEPT !.current_node = "none"], r.v, TRUE, r.raised)
    ELSE Acted(l, r.v, r.ret, r.raised)

about_update(l, v) ==
    IF v.show_code THEN {Acted(l, v, FALSE, "none")}
    ELSE {Acted([l EXCEPT !.current_node = node], v, FALSE, "none") :
            node \in {"none", "about"}}

about_draw(l, v) ==
    draw_with(v, IF v.show_code THEN <<>>
                 ELSE <<"background", "stars", "player", "nodes",
                        "node_content">>)

\* Lesson01Comet.
comet_handle_events(l, v, event) ==
    LET r == lesson_handle_events(v, event) IN
    IF event.type = "KEYDOWN" /\ event.key = "K_SPACE"
    THEN Acted([l EXCEPT !.current_color = (l.current_color + 1) % CometColors],
               r.v, TRUE, r.raised)
    ELSE Acted(l, r.v, r.ret, r.raised)

comet_update(l, v) == {Acted(l, v, FALSE, "none")}

comet_draw(l, v) ==
    draw_with(v, IF v.show_code THEN <<>>
                 ELSE <<"control_hint", "trail", "comet">>)

\* Lesson02Physics. Gravity and elasticity are counted in tenths. In
\* floating point (elasticity + 0.1) % 1.1 is exact up to the first wrap at
\* 1.0; the sum 0.7 + 0.1 after it falls just under 0.8, and from then on
\* the value passes just under 1.1 and wraps to 0.1.
next_elasticity(l) ==
    IF l.elasticity = 11
    THEN [l EXCEPT !.elasticity = 1]
    ELSE IF l.elasticity = 10 /\ l.elasticity_exact
    THEN [l EXCEPT !.elasticity = 0]
    ELSE IF l.elasticity = 7 /\ l.elasticity_exact
    THEN [l EXCEPT !.elasticity = 8, !.elasticity_exact = FALSE]
    ELSE [l EXCEPT !.elasticity = l.elasticity + 1]

physics_handle_events(l, v, event) ==
    LET r == lesson_handle_events(v, event) IN
    IF event.type = "MOUSEBUTTONDOWN"
    THEN Acted([l EXCEPT !.balls = l.balls + 1], r.v, TRUE, r.raised)
    ELSE IF event.type = "KEYDOWN" /\ event.key = "K_SPACE"
    THEN Acted([l EXCEPT !.balls = StartBalls, !.moved = FALSE],
               r.v, TRUE, r.raised)
    ELSE IF event.type = "KEYDOWN" /\ event.key = "K_g"
    THEN Acted([l EXCEPT !.gravity = (l.gravity + 1) % 20], r.v, TRUE, r.raised)
    ELSE IF event.type = "KEYDOWN" /\ event.key = "K_e"
    THEN Acted(next_elasticity(l), r.v, TRUE, r.raised)
    ELSE Acted(l, r.v, r.ret, r.raised)

\* Its update moves every ball and adds a point to its trail, whether or
\* not the viewer is visible.
physics_update(l, v) == {Acted([l EXCEPT !.moved = TRUE], v, FALSE, "none")}

physics_draw(l, v) ==
    draw_with(v, IF v.show_code THEN <<>>
                 ELSE <<"physics_info", "trails", "balls">>)

\* Lesson03Input. The name of the key is kept, its random colour is not.
input_handle_events(l, v, event) ==
    LET r == lesson_handle_events(v, event) IN
    IF r.v.show_code THEN Acted(l, r.v, r.ret, r.raised)
    ELSE IF /\ event.type = "KEYDOWN"
            /\ event.key \notin {"K_LEFT", "K_RIGHT", "K_q"}
    THEN Acted([l EXCEPT !.active_key = event.key, !.key_age = 0],
               r.v, TRUE, r.raised)
    ELSE Acted(l, r.v, r.ret, r.raised)

input_update(l, v) ==
    IF /\ l.active_key # "none"
       /\ ~v.show_code
       /\ l.key_age >= display_duration
    THEN {Acted([l EXCEPT !.active_key = "none", !.key_age = 0],
                v, FALSE, "none")}
    ELSE {Acted(l, v, FALSE, "none")}

input_draw(l, v) ==
    draw_with(v, IF v.show_code THEN <<>>
                 ELSE IF l.active_key = "none"
                 THEN <<"help_text", "detection_hint">>
                 ELSE <<"key_effect", "detection_hint">>)

\* Lesson04Breakout. Whether the ball leaves the screen at the bottom in an
\* update, and whether it hits a brick, are free choices.
_reset_ball(l) == [l EXCEPT !.ball = "reset"]

_handle_space_press(l) ==
    IF l.lives <= 0
    THEN [_reset_ball(_create_bricks([l EXCEPT !.lives = StartLives,
                                               !.score = 0]))
            EXCEPT !.game_active = TRUE]
    ELSE [l EXCEPT !.game_active = ~l.game_active]

breakout_handle_events(l, v, event) ==
    LET r == lesson_handle_events(v, event) IN
    IF event.type = "KEYDOWN" /\ event.key = "K_SPACE"
    THEN Acted(_handle_space_press(l), r.v, TRUE, r.raised)
    ELSE IF event.type = "KEYDOWN" /\ event.key = "K_h"
    THEN Acted([l EXCEPT !.key_h_pressed = TRUE, !.key_age = 0],
               r.v, r.ret, r.raised)
    ELSE IF event.type = "KEYDOWN" /\ event.key = "K_l"
    THEN Acted([l EXCEPT !.key_l_pressed = TRUE, !.key_age = 0],
               r.v, r.ret, r.raised)
    ELSE IF event.type = "KEYUP" /\ event.key = "K_h"
    THEN Acted([l EXCEPT !.key_h_pressed = FALSE], r.v, r.ret, r.raised)
    ELSE IF event.type = "KEYUP" /\ event.key = "K_l"
    THEN Acted([l EXCEPT !.key_l_pressed = FALSE], r.v, r.ret, r.raised)
    ELSE Acted(l, r.v, r.ret, r.raised)

\* _update_paddle: keys are the keys get_pressed reports as held.
_update_paddle(l, keys) ==
    LET left == IF "K_h" \in keys /\ l.paddle_x > 0
                THEN l.paddle_x - paddle_speed ELSE l.paddle_x
    IN [l EXCEPT !.paddle_x =
            IF "K_l" \in keys /\ left < l.width - paddle_width(l.width)
            THEN left + paddle_speed ELSE left]

\* (_update_ball without the end of the game at the last life.)
breakout_update_ball_no_end(l, lost) ==
    IF ~lost THEN [l EXCEPT !.ball = "moving"]
    ELSE _reset_ball([l EXCEPT !.lives = l.lives - 1])

\* _update_ball: the ball moves on; lost says that it is now below the
\* bottom edge.
breakout_update_ball(l, lost) ==
    IF ~lost THEN [l EXCEPT !.ball = "moving"]
    ELSE IF l.lives - 1 > 0 THEN _reset_ball([l EXCEPT !.lives = l.lives - 1])
    ELSE [l EXCEPT !.lives = l.lives - 1, !.game_active = FALSE,
                   !.ball = "below"]

\* _check_collisions: hit says that the ball touches a visible brick, cleared
\* that this brick was the last visible one (the list then held invisible
\* bricks already). The bounce off the paddle changes the ball's speed only.
_check_collisions(l, hit, cleared) ==
    LET after == IF hit /\ l.ball = "moving" /\ l.visible # "none"
                 THEN [l EXCEPT !.score = l.score + 10,
                                !.visible = IF cleared /\ l.visible = "some"
                                            THEN "none" ELSE "some"]
                 ELSE l
    IN IF after.visible = "none" THEN _reset_ball(_create_bricks(after))
       ELSE after

_update_key_indicators(l) ==
    IF l.key_age > key_display_duration
    THEN [l EXCEPT !.key_h_pressed = FALSE, !.key_l_pressed = FALSE]
    ELSE l

breakout_update(l, v, keys) ==
    IF ~l.game_active \/ v.show_code THEN {Acted(l, v, FALSE, "none")}
    ELSE {Acted(_update_key_indicators(
                    _check_collisions(
                        breakout_update_ball(_update_paddle(l, keys), lost),
                        hit, cleared)),
                v, FALSE, "none") : lost, hit, cleared \in BOOLEAN}

breakout_draw(l, v) ==
    draw_with(v, IF v.show_code THEN <<>>
                 ELSE <<"game_elements", "ui">>)

\* Lesson05Arkanoid. Positions are counted from game_rect.left. The ball and
\* the enemies are not kept: whether an update loses the ball or removes
\* the last enemy is a free choice.
arkanoid_reset_game(l) ==
    [l EXCEPT !.platform_x = PlatformStart, !.game_over = FALSE,
              !.victory = FALSE, !.move_left = FALSE, !.move_right = FALSE]

arkanoid_handle_events(l, v, event) ==
    LET r == lesson_handle_events(v, event) IN
    IF event.type = "KEYDOWN" /\ event.key = "K_h"
    THEN Acted([l EXCEPT !.move_left = TRUE], r.v, TRUE, r.raised)
    ELSE IF event.type = "KEYDOWN" /\ event.key = "K_l"
    THEN Acted([l EXCEPT !.move_right = TRUE], r.v, TRUE, r.raised)
    ELSE IF event.type = "KEYDOWN" /\ event.key = "K_SPACE" /\ l.game_over
    THEN Acted(arkanoid_reset_game(l), r.v, TRUE, r.raised)
    ELSE IF event.type = "KEYUP" /\ event.key = "K_h"
    THEN Acted([l EXCEPT !.move_left = FALSE], r.v, TRUE, r.raised)
    ELSE IF event.type = "KEYUP" /\ event.key = "K_l"
    THEN Acted([l EXCEPT !.move_right = FALSE], r.v, TRUE, r.raised)
    ELSE IF event.type = "MOUSEMOTION" /\ ~l.game_over
    THEN Acted([l EXCEPT !.platform_x =
                    Max(0, Min(event.pos - PlatformWidth \div 2,
                               GameWidth - PlatformWidth))],
               r.v, r.ret, r.raised)
    ELSE Acted(l, r.v, r.ret, r.raised)

_update_platform(l) ==
    LET left == IF l.move_left THEN Max(0, l.platform_x - PlatformSpeed)
                ELSE l.platform_x
        right == IF l.move_right
                 THEN Min(GameWidth - PlatformWidth, left + PlatformSpeed)
                 ELSE left
    IN  [l EXCEPT !.platform_x = right]

arkanoid_update(l, v) ==
    IF l.game_over \/ v.show_code THEN {Acted(l, v, FALSE, "none")}
    ELSE LET moved == _update_platform(l) IN
         {Acted(moved, v, FALSE, "none"),
          Acted([moved EXCEPT !.game_over = TRUE, !.victory = FALSE],
                v, FALSE, "none"),
          Acted([moved EXCEPT !.game_over = TRUE, !.victory = TRUE],
                v, FALSE, "none")}

arkanoid_draw(l, v) ==
    draw_with(v, IF v.show_code THEN <<>>
                 ELSE <<"game_area", "game_elements", "game_state">>)

\* The constructor of the lesson class class_obj: BaseLesson.__init__ runs
\* first, the attributes of the class are set after it.
LessonNew(class_obj, ticks) ==
    LET r == BaseLessonNew(class_obj, ticks) IN
    Acted(NewLesson(class_obj.kind), r.v, FALSE, r.raised)

\* The methods of the current lesson, by the kind of its class.
current_handle_events(l, v, event) ==
    CASE l.kind = "Lesson00About" -> about_handle_events(l, v, event)
      [] l.kind = "Lesson01Comet" -> comet_handle_events(l, v, event)
      [] l.kind = "Lesson02Physics" -> physics_handle_events(l, v, event)
      [] l.kind = "Lesson03Input" -> input_handle_events(l, v, event)
      [] l.kind = "Lesson04Breakout" -> breakout_handle_events(l, v, event)
      [] l.kind = "Lesson05Arkanoid" -> arkanoid_handle_events(l, v, event)
      [] OTHER -> LET r == lesson_handle_events(v, event) IN
                  Acted(l, r.v, r.ret, r.raised)

\* update: the states it can lead to.
current_update(l, v, keys) ==
    CASE l.kind = "Lesson00About" -> about_update(l, v)
      [] l.kind = "Lesson01Comet" -> comet_update(l, v)
      [] l.kind = "Lesson02Physics" -> physics_update(l, v)
      [] l.kind = "Lesson03Input" -> input_update(l, v)
      [] l.kind = "Lesson04Breakout" -> breakout_update(l, v, keys)
      [] l.kind = "Lesson05Arkanoid" -> arkanoid_update(l, v)
      [] OTHER -> LET r == lesson_update(v) IN
                  {Acted(l, r.v, r.ret, r.raised)}

current_draw(l, v) ==
    CASE l.kind = "Lesson00About" -> about_draw(l, v)
      [] l.kind = "Lesson01Comet" -> comet_draw(l, v)
      [] l.kind = "Lesson02Physics" -> physics_draw(l, v)
      [] l.kind = "Lesson03Input" -> input_draw(l, v)
      [] l.kind = "Lesson04Breakout" -> breakout_draw(l, v)
      [] l.kind = "Lesson05Arkanoid" -> arkanoid_draw(l, v)
      [] OTHER -> lesson_draw(v)

\* The lesson classes load_lessons found.
LoadedLessons ==
    <<ClassWithSource(16), ClassWithSource(23), ClassWithSource(20)>>

\* The state Slideshow.run works on.
Shell(l, v, exc, index, run) ==
    [lesson |-> l, v |-> v, raised |-> exc, index |-> index, running |-> run]

\* start_lesson that keeps the instance when the index stays the same.
start_lesson_same(st, index, ticks) ==
    IF 0 <= index /\ index < Len(lessons) /\ index # st.index
    THEN LET r == LessonNew(lessons[index + 1], ticks) IN
         IF r.raised # "none"
         THEN [st EXCEPT !.index = index, !.raised = r.raised]
         ELSE [st EXCEPT !.index = index, !.v = r.v, !.lesson = r.lesson]
    ELSE st

\* Slideshow.start_lesson: the index is set before the lesson is constructed,
\* and current_lesson only when the constructor returns. (Python counts the
\* list from 0, the sequence is counted from 1.)
start_lesson(st, index, ticks) ==
    IF 0 <= index /\ index < Len(lessons)
    THEN LET r == LessonNew(lessons[index + 1], ticks) IN
         IF r.raised # "none"
         THEN [st EXCEPT !.index = index, !.raised = r.raised]
         ELSE [st EXCEPT !.index = index, !.v = r.v, !.lesson = r.lesson]
    ELSE st

\* _handle_key with arrows that stop at the ends of the list.
_handle_key_no_wrap(st, key, ticks) ==
    IF key \in {"K_q", "K_ESCAPE"} THEN [st EXCEPT !.running = FALSE]
    ELSE IF key = "K_RIGHT" THEN start_lesson(st, st.index + 1, ticks)
    ELSE IF key = "K_LEFT" THEN start_lesson(st, st.index - 1, ticks)
    ELSE st

\* Slideshow._handle_key.
_handle_key(st, key, ticks) ==
    IF key \in {"K_q", "K_ESCAPE"} THEN [st EXCEPT !.running = FALSE]
    ELSE IF key = "K_RIGHT"
    THEN start_lesson(st, (st.index + 1) % Len(lessons), ticks)
    ELSE IF key = "K_LEFT"
    THEN start_lesson(st, (st.index - 1) % Len(lessons), ticks)
    ELSE st

\* The body of run's loop over pygame.event.get(), for one event.
run_event(st, event, ticks) ==
    LET quit == IF event.type = "QUIT" THEN [st EXCEPT !.running = FALSE] ELSE st
        keyed == IF event.type = "KEYDOWN"
                 THEN _handle_key(quit, event.key, ticks) ELSE quit
    IN  IF keyed.raised # "none" THEN keyed
        ELSE LET r == current_handle_events(keyed.lesson, keyed.v, event) IN
             [keyed EXCEPT !.v = r.v, !.lesson = r.lesson]

RECURSIVE run_events(_, _, _)
run_events(st, events, ticks) ==
    IF Len(events) = 0 \/ st.raised # "none" THEN st
    ELSE run_events(run_event(st, Head(events), ticks), Tail(events), ticks)

\* The events the shell's model posts: the keys the viewer and the shell
\* read, one key nobody reads, the release of the scroll keys and, for all
\* other releases, that of the toggle key; the window's close button.
ShellKeys == ViewerKeys \cup {"K_q", "K_RIGHT", "K_LEFT"}

ShellEvents ==
    {KeyDown(k) : k \in ShellKeys} \cup {KeyUp(k) : k \in ScrollKeys \cup {"K_s"}}
        \cup {[type |-> "QUIT", key |-> "none"]}

\* Slideshow.__init__: the lessons are loaded and the first one is started.
AppInit ==
    /\ lessons = LoadedLessons
    /\ current_lesson_index = 0
    /\ running = TRUE
    /\ raised = "none"
    /\ queue = <<>>
    /\ flipped = FALSE
    /\ keys_down \in SUBSET ScrollKeys
    /\ code_viewer \in {BaseLessonNew(LoadedLessons[1], t).v : t \in TicksAtInit}
    /\ last = Last("__init__", NoArg, FALSE, <<>>)
    /\ lesson = NewLesson("BaseLesson")
    /\ lessons_dir = <<>>
    /\ stdout = <<>>

\* The user presses or releases a key, or closes the window: pygame queues
\* the event until the next frame.
Post(event) ==
    /\ running
    /\ raised = "none"
    /\ Len(queue) < MaxQueue
    /\ Possible(event, keys_down)
    /\ queue' = Append(queue, event)
    /\ keys_down' = KeysAfter(event, keys_down)
    /\ last' = Last("post", event, FALSE, <<>>)
    /\ code_viewer' = Found(code_viewer)
    /\ UNCHANGED <<raised, flipped, lessons, current_lesson_index, running,
                   lesson, disk>>

\* One pass of run's loop: clock.tick, the events of the queue, the current
\* lesson's update and draw, the position dots, display.flip. An exception
\* leaves the loop before the flip.
Frame(dt) ==
    /\ running
    /\ raised = "none"
    /\ \E st1 \in {run_events(Shell(LessonLater(lesson, dt),
                                    Later(Found(code_viewer), dt),
                                    "none", current_lesson_index, TRUE),
                              queue, MaxElapsed)} :
        \* (a lesson started in this frame reads a clock that has run long)
        /\ queue' = <<>>
        /\ current_lesson_index' = st1.index
        /\ running' = st1.running
        /\ UNCHANGED <<keys_down, lessons, disk>>
        /\ IF st1.raised # "none"
           THEN /\ raised' = st1.raised
                /\ code_viewer' = st1.v
                /\ lesson' = st1.lesson
                /\ flipped' = flipped
                /\ last' = Last("frame", NoArg, FALSE, <<>>)
           ELSE \E upd \in current_update(st1.lesson, st1.v, keys_down) :
                \E drw \in {current_draw(upd.lesson, upd.v)} :
                    /\ raised' = drw.raised
                    /\ code_viewer' = upd.v
                    /\ lesson' = upd.lesson
                    /\ flipped' = IF drw.raised = "none" THEN ~flipped
                                  ELSE flipped
                    /\ last' = Last("frame", NoArg, FALSE,
                                    IF drw.raised = "none"
                                    THEN drw.out \o <<Drawn("nav_dots")>>
                                    ELSE drw.out)

AppNext ==
    \/ \E event \in ShellEvents : Post(event)
    \/ \E dt \in FrameMs : Frame(dt)

\* The loop runs on while running holds: a frame is always taken.
AppSpec == AppInit /\ [][AppNext]_vars /\ WF_vars(\E dt \in FrameMs : Frame(dt))

\* ------------------------------------------------- one lesson on screen

\* The lesson classes of the lessons directory, each with a source of 16
\* lines.
LessonClasses == {ClassOfKind(kind, 16) : kind \in LessonKinds}

\* Where the mouse is moved to, counted from game_rect.left: left of the
\* area, its middle, and its right edge.
MousePositions == {0, 250, 500}

\* A lesson adds balls up to this many.
MaxBalls == 4

\* A game of Lesson04Breakout is followed up to this score and this many
\* bricks in its list.
MaxScore == 20
MaxBricks == 100
Followed(l) ==
    l.kind = "Lesson04Breakout" => l.score <= MaxScore /\ l.bricks <= MaxBricks

\* The time between two updates of a lesson, in ms.
LessonMs == {250, 500}

\* The events a lesson is offered: the toggle key, the keys the lessons
\* read, one key none of them names, two of the shell's keys, key releases,
\* and the mouse.
LessonEvents ==
    {KeyDown(k) : k \in {"K_s", "K_SPACE", "K_h", "K_l", "K_g", "K_e", "K_a",
                          "K_LEFT", "K_q"}}
        \cup {KeyUp(k) : k \in {"K_h", "K_l"}}
        \cup {MouseMotionAt(x) : x \in MousePositions}
        \cup {MouseButtonDown}

\* A lesson of any class has been started, long after pygame.init().
LessonInit ==
    \E class_obj \in LessonClasses :
        \E r \in {LessonNew(class_obj, MaxElapsed)} :
            /\ lessons = <<class_obj>>
            /\ current_lesson_index = 0
            /\ running = TRUE
            /\ raised = r.raised
            /\ queue = <<>>
            /\ flipped = FALSE
            /\ keys_down = {}
            /\ code_viewer = r.v
            /\ lesson = r.lesson
            /\ last = Last("__init__", NoArg, FALSE, <<>>)
            /\ lessons_dir = <<>>
            /\ stdout = <<>>

\* run offers an event to the current lesson's handle_events.
LessonHandleEvents(event) ==
    /\ raised = "none"
    /\ event.type = "MOUSEBUTTONDOWN" /\ lesson.kind = "Lesson02Physics"
            => lesson.balls < MaxBalls
    /\ \E r \in {current_handle_events(lesson, Found(code_viewer), event)} :
        /\ Followed(r.lesson)
        /\ code_viewer' = r.v
        /\ lesson' = r.lesson
        /\ raised' = r.raised
        /\ last' = Last("handle_events", NoArg, r.ret, <<>>)
    /\ UNCHANGED <<keys_down, queue, flipped, lessons, current_lesson_index,
                   running, disk>>

\* run calls the current lesson's update, dt ms after the call before.
LessonUpdate(dt) ==
    /\ raised = "none"
    /\ \E r \in current_update(LessonLater(lesson, dt),
                               Later(Found(code_viewer), dt), keys_down) :
        /\ Followed(r.lesson)
        /\ code_viewer' = r.v
        /\ lesson' = r.lesson
        /\ raised' = r.raised
        /\ last' = Last("update", NoArg, r.ret, <<>>)
    /\ UNCHANGED <<keys_down, queue, flipped, lessons, current_lesson_index,
                   running, disk>>

\* run draws the frame: the current lesson's draw, the position dots,
\* display.flip. An exception leaves before the dots.
LessonDraw ==
    /\ raised = "none"
    /\ \E r \in {current_draw(lesson, Found(code_viewer))} :
        /\ raised' = r.raised
        /\ flipped' = IF r.raised = "none" THEN ~flipped ELSE flipped
        /\ last' = Last("draw", NoArg, FALSE,
                        IF r.raised = "none"
                        THEN r.out \o <<Drawn("nav_dots")>> ELSE r.out)
    /\ code_viewer' = Found(code_viewer)
    /\ UNCHANGED <<keys_down, queue, lessons, current_lesson_index, running,
                   lesson, disk>>

LessonNext ==
    \/ \E event \in LessonEvents : LessonHandleEvents(event)
    \/ \E dt \in LessonMs : LessonUpdate(dt)
    \/ LessonDraw

LessonSpec == LessonInit /\ [][LessonNext]_vars

\* ----------------------------------------------------------- navigation

\* What load_lessons has returned: a single class, two classes, three
\* classes. The sources differ in length, so that the buffer of a viewer
\* tells the class it was loaded from.
LessonLists ==
    {<<ClassOfKind("Lesson01Comet", 16)>>,
     <<ClassOfKind("Lesson00About", 16), ClassOfKind("Lesson03Input", 20)>>,
     <<ClassOfKind("Lesson01Comet", 16), ClassOfKind("Lesson03Input", 20),
       ClassOfKind("Lesson04Breakout", 23)>>}

\* The keys pressed while the slideshow runs: the arrows, the viewer's
\* keys, SPACE, and a key only Lesson03Input reads.
NavEvents ==
    {KeyDown(k) : k \in {"K_RIGHT", "K_LEFT", "K_s", "K_j", "K_SPACE", "K_a"}}

\* Slideshow.__init__ for a list of lesson classes: the first lesson is
\* started.
NavInit ==
    \E list \in LessonLists :
        \E r \in {LessonNew(list[1], MaxElapsed)} :
            /\ lessons = list
            /\ current_lesson_index = 0
            /\ running = TRUE
            /\ raised = r.raised
            /\ queue = <<>>
            /\ flipped = FALSE
            /\ keys_down = {}
            /\ code_viewer = r.v
            /\ lesson = r.lesson
            /\ last = Last("__init__", NoArg, FALSE, <<>>)
            /\ lessons_dir = <<>>
            /\ stdout = <<>>

\* The body of run's loop over the events, for one event: _handle_key,
\* then the handle_events of the lesson that is current after it.
NavEvent(event) ==
    /\ running
    /\ raised = "none"
    /\ \E st \in {run_event(Shell(lesson, Found(code_viewer), "none",
                                  current_lesson_index, TRUE),
                            event, MaxElapsed)} :
        /\ Followed(st.lesson)
        /\ code_viewer' = st.v
        /\ lesson' = st.lesson
        /\ raised' = st.raised
        /\ current_lesson_index' = st.index
        /\ running' = st.running
        /\ last' = Last("event", event, FALSE, <<>>)
    /\ UNCHANGED <<keys_down, queue, flipped, lessons, disk>>

NavNext ==
    \/ \E event \in NavEvents : NavEvent(event)
    \/ \E dt \in LessonMs : LessonUpdate(dt)

NavSpec == NavInit /\ [][NavNext]_vars

\* ------------------------------------------- a game of Lesson04Breakout

\* The widths of the screens the game is played on.
ScreenWidths == {1000, 1920}

\* The keys _update_paddle reads.
PaddleKeys == {"K_h", "K_l"}

\* Lesson04Breakout has been started on a screen of one of the widths.
BreakoutInit ==
    \E width \in ScreenWidths :
        \E r \in {LessonNew(ClassOfKind("Lesson04Breakout", 23), MaxElapsed)} :
            /\ lessons = <<ClassOfKind("Lesson04Breakout", 23)>>
            /\ current_lesson_index = 0
            /\ running = TRUE
            /\ raised = r.raised
            /\ queue = <<>>
            /\ flipped = FALSE
            /\ keys_down = {}
            /\ code_viewer = r.v
            /\ lesson = NewBreakout(width)
            /\ last = Last("__init__", NoArg, FALSE, <<>>)
            /\ lessons_dir = <<>>
            /\ stdout = <<>>

\* run calls update while the player holds the keys of the set keys.
BreakoutUpdate(keys, dt) ==
    /\ raised = "none"
    /\ \E r \in current_update(LessonLater(lesson, dt),
                               Later(Found(code_viewer), dt), keys) :
        /\ Followed(r.lesson)
        /\ code_viewer' = r.v
        /\ lesson' = r.lesson
        /\ raised' = r.raised
        /\ last' = Last("update", NoArg, r.ret, <<>>)
    /\ UNCHANGED <<keys_down, queue, flipped, lessons, current_lesson_index,
                   running, disk>>

BreakoutNext ==
    \/ LessonHandleEvents(KeyDown("K_SPACE"))
    \/ \E keys \in SUBSET PaddleKeys : \E dt \in LessonMs :
            BreakoutUpdate(keys, dt)

BreakoutSpec == BreakoutInit /\ [][BreakoutNext]_vars

\* ----------------------------------------------------------------- loader

\* The characters of file and class names, in the order of their code
\* points (the order str and Path compare by).
Digits == <<"0", "1", "2", "3", "4", "5", "6", "7", "8", "9">>
UpperCase ==
    <<"A", "B", "C", "D", "E", "F", "G", "H", "I", "J", "K", "L", "M",
      "N", "O", "P", "Q", "R", "S", "T", "U", "V", "W", "X", "Y", "Z">>
LowerCase ==
    <<"a", "b", "c", "d", "e", "f", "g", "h", "i", "j", "k", "l", "m",
      "n", "o", "p", "q", "r", "s", "t", "u", "v", "w", "x", "y", "z">>
CodeOrder == <<".">> \o Digits \o UpperCase \o <<"_">> \o LowerCase

IndexIn(seq, c) == CHOOSE i \in 1..Len(seq) : seq[i] = c
IsIn(seq, c) == \E i \in 1..Len(seq) : seq[i] = c
ord(c) == IndexIn(CodeOrder, c)

\* str.upper and str.lower, of one character.
upper(c) == IF IsIn(LowerCase, c) THEN UpperCase[IndexIn(LowerCase, c)] ELSE c
lower(c) == IF IsIn(UpperCase, c) THEN LowerCase[IndexIn(UpperCase, c)] ELSE c

\* str.capitalize: the first character in upper case, the others in lower
\* case.
capitalize(part) ==
    [i \in 1..Len(part) |-> IF i = 1 THEN upper(part[i]) ELSE lower(part[i])]

\* str.split("_"): the parts between the underscores, empty ones too.
RECURSIVE split(_)
split(stem) ==
    LET bars == {i \in 1..Len(stem) : stem[i] = "_"} IN
    IF bars = {} THEN <<stem>>
    ELSE LET first == CHOOSE i \in bars : \A j \in bars : i <= j IN
         <<SubSeq(stem, 1, first - 1)>>
            \o split(SubSeq(stem, first + 1, Len(stem)))

\* "".join(parts).
RECURSIVE join(_)
join(parts) ==
    IF Len(parts) = 0 THEN <<>> ELSE Head(parts) \o join(Tail(parts))

\* The class name with every part as the file name has it.
class_name_as_written(stem) == join(split(stem))

\* load_lessons, the name of the class it looks for in the module of a file.
class_name(stem) ==
    LET parts == split(stem) IN
    join([i \in 1..Len(parts) |-> capitalize(parts[i])])

\* The lesson files of the model: the stem of each (its name without ".py"),
\* the class name the naming convention gives it, and its parts joined as
\* they are written.
LessonFiles ==
    <<[stem |-> <<"l", "e", "s", "s", "o", "n", "_", "0", "1", "_", "c", "o",
                  "m", "e", "t">>,
       pascal |-> <<"L", "e", "s", "s", "o", "n", "0", "1", "C", "o", "m",
                    "e", "t">>,
       plain |-> <<"l", "e", "s", "s", "o", "n", "0", "1", "c", "o", "m",
                   "e", "t">>],
      [stem |-> <<"l", "e", "s", "s", "o", "n", "_", "b", "a", "s", "i", "c",
                  "s">>,
       pascal |-> <<"L", "e", "s", "s", "o", "n", "B", "a", "s", "i", "c",
                    "s">>,
       plain |-> <<"l", "e", "s", "s", "o", "n", "b", "a", "s", "i", "c",
                   "s">>],
      [stem |-> <<"l", "e", "s", "s", "o", "n", "_", "d", "e", "m", "o">>,
       pascal |-> <<"L", "e", "s", "s", "o", "n", "D", "e", "m", "o">>,
       plain |-> <<"l", "e", "s", "s", "o", "n", "d", "e", "m", "o">>]>>

\* A class: the module that defines it, its name and its attributes.
Class(stem, name, attrs) == [module |-> stem, name |-> name, attrs |-> attrs]

\* core.base.BaseLesson.
BaseLesson ==
    Class(<<"b", "a", "s", "e">>,
          <<"B", "a", "s", "e", "L", "e", "s", "s", "o", "n">>,
          {"__init__", "handle_events", "update", "draw"})

Helper(stem) ==
    Class(stem, <<"H", "e", "l", "p", "e", "r">>,
          {"handle_events", "update", "draw"})

\* What a lesson file can hold. A module either raises when it is imported
\* or exposes its classes: a lesson class as the convention wants it; a class
\* under another name; a class of the right name without draw, and one
\* without handle_events, each next to a helper class that has both; a class
\* of the right name that has draw and handle_events but no update.
Module(exc, classes) == [raises |-> exc, classes |-> classes]

Kinds ==
    {"valid", "raises", "misnamed", "no_draw", "no_handle_events", "no_update"}

ModuleOf(f, kind) ==
    CASE kind = "valid" ->
            Module("none", {Class(f.stem, f.pascal,
                                  {"handle_events", "update", "draw"})})
      [] kind = "raises" -> Module("ImportError", {})
      [] kind = "misnamed" ->
            Module("none", {Class(f.stem, f.plain,
                                  {"handle_events", "update", "draw"})})
      [] kind = "no_draw" ->
            Module("none", {Class(f.stem, f.pascal, {"handle_events", "update"}),
                            Helper(f.stem)})
      [] kind = "no_handle_events" ->
            Module("none", {Class(f.stem, f.pascal, {"draw", "update"}),
                            Helper(f.stem)})
      [] kind = "no_update" ->
            Module("none", {Class(f.stem, f.pascal, {"draw", "handle_events"})})

File(stem, module) == [stem |-> stem, module |-> module]

\* The directories of the model: any of the lesson files, each with any of
\* its modules.
Directories ==
    UNION {{{File(LessonFiles[i].stem, ModuleOf(LessonFiles[i], kinds[i])) :
                i \in present} :
            kinds \in [present -> Kinds]} :
           present \in SUBSET (1..Len(LessonFiles))}

\* Path.glob: the files of a directory, each once, in an order of the file
\* system's choosing.
glob(dir) ==
    {listing \in [1..Cardinality(dir) -> dir] :
        \A i, j \in 1..Cardinality(dir) : listing[i] = listing[j] => i = j}

\* The order of str: by the code points of the first characters that differ,
\* a proper prefix first.
Less(a, b) ==
    \E k \in 0..Min(Len(a), Len(b)) :
        /\ SubSeq(a, 1, k) = SubSeq(b, 1, k)
        /\ k < Len(b)
        /\ k < Len(a) => ord(a[k + 1]) < ord(b[k + 1])

filename(file) == file.stem \o <<".", "p", "y">>

\* sorted(paths): the paths of one directory, by file name.
RECURSIVE sorted(_)
sorted(listing) ==
    IF Len(listing) = 0 THEN <<>>
    ELSE LET least == CHOOSE i \in 1..Len(listing) :
                        \A j \in 1..Len(listing) :
                            ~Less(filename(listing[j]), filename(listing[i]))
         IN  <<listing[least]>>
                \o sorted(SubSeq(listing, 1, least - 1)
                            \o SubSeq(listing, least + 1, Len(listing)))

\* What load_lessons gives back: the list it returns, the lines it has
\* printed, and the exception that left it ("none" when it returned).
Loaded(list, out, exc) == [lessons |-> list, stdout |-> out, raised |-> exc]

\* The line load_lessons prints for a file whose import raised.
ErrorLoading(file) == [file |-> filename(file), error |-> file.module.raises]

\* The loop without its try: the exception of an import leaves it.
RECURSIVE scan_uncaught(_, _, _)
scan_uncaught(files, list, out) ==
    IF Len(files) = 0 THEN Loaded(list, out, "none")
    ELSE LET file == Head(files)
             found == {c \in file.module.classes : c.name = class_name(file.stem)}
             lesson_class == CHOOSE c \in found : TRUE
         IN  IF file.module.raises # "none"
             THEN Loaded(list, out, file.module.raises)
             ELSE IF /\ found # {}
                     /\ {"draw", "handle_events"} \subseteq lesson_class.attrs
             THEN scan_uncaught(Tail(files), Append(list, lesson_class), out)
             ELSE scan_uncaught(Tail(files), list, out)

\* load_lessons, its loop over the sorted files: the module is imported (an
\* exception is caught and printed), the class of the expected name is looked
\* up in it, and appended if it has draw and handle_events. (The test for
\* the stem "__init__" never holds for a file that matches lesson_*.py.)
RECURSIVE scan(_, _, _)
scan(files, list, out) ==
    IF Len(files) = 0 THEN Loaded(list, out, "none")
    ELSE LET file == Head(files)
             found == {c \in file.module.classes : c.name = class_name(file.stem)}
             lesson_class == CHOOSE c \in found : TRUE
         IN  IF file.module.raises # "none"
             THEN scan(Tail(files), list, Append(out, ErrorLoading(file)))
             ELSE IF /\ found # {}
                     /\ {"draw", "handle_events"} \subseteq lesson_class.attrs
             THEN scan(Tail(files), Append(list, lesson_class), out)
             ELSE scan(Tail(files), list, out)

get_fallback_lesson == BaseLesson

\* load_lessons that sorts nothing, and load_lessons that adds the fallback
\* to every list.
load_lessons_as_listed(listing) ==
    LET r == scan(listing, <<>>, <<>>) IN
    Loaded(IF Len(r.lessons) = 0 THEN <<get_fallback_lesson>> ELSE r.lessons,
           r.stdout, r.raised)

load_lessons_with_fallback(listing) ==
    LET r == scan(sorted(listing), <<>>, <<>>) IN
    Loaded(Append(r.lessons, get_fallback_lesson), r.stdout, r.raised)

\* load_lessons, for the listing that LESSONS_DIR.glob gives.
load_lessons(listing) ==
    LET r == scan(sorted(listing), <<>>, <<>>) IN
    Loaded(IF Len(r.lessons) = 0 THEN <<get_fallback_lesson>> ELSE r.lessons,
           r.stdout, r.raised)

\* The program starts with some files in LESSONS_DIR; nothing is loaded yet.
LoaderInit ==
    /\ lessons_dir \in UNION {glob(dir) : dir \in Directories}
    /\ stdout = <<>>
    /\ lessons = <<>>
    /\ current_lesson_index = 0
    /\ running = FALSE
    /\ raised = "none"
    /\ queue = <<>>
    /\ flipped = FALSE
    /\ keys_down = {}
    /\ code_viewer = CodeViewerNew(0)
    /\ lesson = NewLesson("BaseLesson")
    /\ last = Last("__init__", NoArg, FALSE, <<>>)

\* Slideshow.__init__: self.lessons = load_lessons() and
\* self.current_lesson_index = 0. An exception that leaves load_lessons
\* leaves __init__ before either assignment.
LoadLessons ==
    /\ last.op = "__init__"
    /\ \E r \in {load_lessons(lessons_dir)} :
        /\ stdout' = stdout \o r.stdout
        /\ raised' = r.raised
        /\ lessons' = IF r.raised = "none" THEN r.lessons ELSE lessons
    /\ current_lesson_index' = 0
    /\ last' = Last("load_lessons", NoArg, FALSE, <<>>)
    /\ UNCHANGED <<code_viewer, keys_down, queue, flipped, running, lesson,
                   lessons_dir>>

LoaderNext == LoadLessons

LoaderSpec == LoaderInit /\ [][LoaderNext]_vars

\* ------------------------------------------------------------------ claims

\* The largest scroll offset of a buffer, and the offsets in its range.
MaxScroll(v) == Max(0, Len(v.code_lines) - visible_lines)
InRange(v) == 0 <= v.code_scroll /\ v.code_scroll <= MaxScroll(v)
Clamped(v, offset) == Max(0, Min(offset, MaxScroll(v)))

\* The lines the window has to show: those from code_scroll on, at most
\* visible_lines of them, cut at the end of the buffer.
WindowLines(v) ==
    [i \in 1..Max(0, Min(visible_lines, Len(v.code_lines) - v.code_scroll)) |->
        v.code_lines[v.code_scroll + i]]

ShownLines(v) ==
    [i \in 1..Len(v.code_surface.rows) |-> v.code_surface.rows[i].line]

\* Whether the presses k + 1 ... n of the scroll-down key each lead to the
\* offset min(first + 3 * presses, largest offset); v is the viewer after k
\* presses and first the offset before them all.
RECURSIVE ScrollsDown(_, _, _, _)
ScrollsDown(v, first, k, n) ==
    /\ v.code_scroll = Min(first + k * scroll_step, MaxScroll(v))
    /\ \/ k = n
       \/ ScrollsDown(handle_events(v, KeyDown("K_j")).v, first, k + 1, n)

\* C1: in every reachable state of a viewer, 0 <= code_scroll <=
\* max(0, len(code_lines) - visible_lines).
C1_ScrollOffsetInRange == InRange(code_viewer)

\* C2: from any offset in range, k presses of the scroll-down key on a shown
\* viewer lead to the offset min(code_scroll + 3k, max(0, len - visible_lines)):
\* the offset never passes the end, reaches it exactly and then stays (on the
\* 20-line buffer, from 0, it ends at 5), for every k up to visible_lines + 10.
C2_ScrollDownReachesEnd ==
    (code_viewer.show_code /\ InRange(code_viewer)) =>
        ScrollsDown(code_viewer, code_viewer.code_scroll, 0, visible_lines + 10)

\* A 20-line buffer that the scroll-down key has brought from 0 to its end.
C2_Witness ==
    /\ last.op = "handle_events" /\ last.arg = KeyDown("K_j")
    /\ code_viewer.show_code
    /\ Len(code_viewer.code_lines) = 20
    /\ code_viewer.code_scroll = 5

\* C3: a press of the toggle key flips show_code and changes neither
\* code_scroll nor code_lines, and a second press gives back the first state's
\* show_code and code_scroll.
C3_ToggleKeepsScroll ==
    [][(last'.op = "handle_events" /\ last'.arg = KeyDown("K_s")) =>
        LET again == handle_events(code_viewer', KeyDown("K_s")).v IN
        /\ code_viewer'.show_code = ~code_viewer.show_code
        /\ code_viewer'.code_scroll = code_viewer.code_scroll
        /\ code_viewer'.code_lines = code_viewer.code_lines
        /\ again.show_code = code_viewer.show_code
        /\ again.code_scroll = code_viewer.code_scroll]_vars

\* A scrolled viewer that the toggle key has just hidden.
C3_Witness ==
    /\ last.op = "handle_events" /\ last.arg = KeyDown("K_s")
    /\ ~code_viewer.show_code
    /\ code_viewer.code_scroll > 0

\* C4: update, with a scroll direction active and at least scroll_repeat_delay
\* ms since the last scroll step, moves code_scroll by scroll_step lines in
\* that direction, clamped, and restarts the time since the last step; else
\* it changes nothing.
C4_UpdateStepsByScrollStep ==
    [][(last'.op = "update") =>
        IF /\ code_viewer.scroll_direction # 0
           /\ code_viewer.since_scroll >= scroll_repeat_delay
        THEN /\ code_viewer'.code_scroll =
                    Clamped(code_viewer,
                            code_viewer.code_scroll
                                + code_viewer.scroll_direction * scroll_step)
             /\ code_viewer'.since_scroll = 0
        ELSE code_viewer' = Found(code_viewer)]_vars

\* C5: a frame that finds no event, the viewer shown, the scroll-down key held
\* with its direction active, more than scroll_repeat_delay ms since the
\* last scroll step and lines left below the window, scrolls on.
C5_FrameRepeatsScroll ==
    [][(/\ last'.op = "frame"
        /\ queue = <<>>
        /\ code_viewer.show_code
        /\ "K_j" \in keys_down
        /\ code_viewer.scroll_direction = 1
        /\ code_viewer.since_scroll > scroll_repeat_delay
        /\ code_viewer.code_scroll < MaxScroll(code_viewer))
       => code_viewer'.code_scroll > code_viewer.code_scroll]_vars

\* C6: load_source, in any state, sets code_lines to the lines of the new
\* text, code_scroll to 0 and makes a new surface.
C6_LoadSourceResetsScroll ==
    [][(last'.op = "load_source" /\ raised' = "none") =>
        /\ code_viewer'.code_lines =
                splitlines(getsource(ClassWithSource(last'.arg.n)))
        /\ code_viewer'.code_scroll = 0
        /\ code_viewer'.code_surface.new
        /\ ShownLines(code_viewer') = WindowLines(code_viewer')]_vars

\* C7: load_source of a class whose source cannot be obtained raises nothing
\* and leaves the viewer with an empty buffer at offset 0.
C7_LoadFailureLeavesEmptyBuffer ==
    (last.op = "load_source" /\ ~last.arg.has_source) =>
        /\ raised = "none"
        /\ code_viewer.code_lines = <<>>
        /\ code_viewer.code_scroll = 0

\* C8, as claimed: a scroll-key event, press or release, that arrives while
\* the viewer is hidden changes nothing and is reported as not handled.
C8_ScrollKeysIgnoredWhileHidden ==
    [][(/\ last'.op = "handle_events"
        /\ last'.arg.key \in ScrollKeys
        /\ ~code_viewer.show_code)
       => /\ code_viewer' = Found(code_viewer)
          /\ last'.ret = FALSE]_vars

\* C8, amended: while the viewer is hidden a scroll-key press changes nothing
\* and is reported as not handled; a scroll-key release sets scroll_direction
\* to stopped, changes nothing else and is reported as handled.
C8_ScrollKeysWhileHidden ==
    [][(/\ last'.op = "handle_events"
        /\ last'.arg.key \in ScrollKeys
        /\ ~code_viewer.show_code)
       => IF last'.arg.type = "KEYDOWN"
          THEN /\ code_viewer' = Found(code_viewer)
               /\ last'.ret = FALSE
          ELSE /\ code_viewer' =
                    [Found(code_viewer) EXCEPT !.scroll_direction = 0]
               /\ last'.ret = TRUE]_vars

\* A scroll key pressed while the viewer is hidden, the other one still held
\* from the time it was shown: nothing is handled.
C8_Witness ==
    /\ last.op = "handle_events" /\ last.arg = KeyDown("K_k")
    /\ ~code_viewer.show_code
    /\ code_viewer.scroll_direction = 1
    /\ last.ret = FALSE

\* C9: scroll_direction starts stopped; a scroll-down press on a shown viewer
\* makes one step of scroll_step lines and sets it to down, a scroll-up press
\* one step and up, the release of either scroll key sets it to stopped, and
\* no other operation changes it.
C9_DirectionFollowsScrollKeys ==
    /\ code_viewer.scroll_direction = 0
    /\ [][LET v == code_viewer
              w == code_viewer'
              handled == last'.op = "handle_events"
              down == handled /\ last'.arg = KeyDown("K_j") /\ v.show_code
              up == handled /\ last'.arg = KeyDown("K_k") /\ v.show_code
              release == /\ handled
                         /\ last'.arg.type = "KEYUP"
                         /\ last'.arg.key \in ScrollKeys
          IN  /\ down => /\ w.scroll_direction = 1
                         /\ w.code_scroll =
                                Max(0, Min(v.code_scroll + scroll_step,
                                           Len(v.code_lines) - visible_lines))
              /\ up => /\ w.scroll_direction = -1
                       /\ w.code_scroll =
                                Max(0, Min(v.code_scroll - scroll_step,
                                           Len(v.code_lines) - visible_lines))
              /\ release => w.scroll_direction = 0
              /\ ~(down \/ up \/ release) =>
                    w.scroll_direction = v.scroll_direction]_vars

\* A hidden viewer whose direction the release of a scroll key has stopped
\* while the other scroll key is still held.
C9_Witness ==
    /\ last.op = "handle_events" /\ last.arg = KeyUp("K_j")
    /\ ~code_viewer.show_code
    /\ "K_k" \in keys_down
    /\ code_viewer.scroll_direction = 0
    /\ code_viewer.code_scroll > 0

C11_FooterNamesWindow ==
    [][(last'.op = "draw") =>
        LET v == code_viewer
            out == last'.out
        IN  IF v.show_code
            THEN /\ raised' = "none"
                 /\ Len(out) = 4
                 /\ out[3].what = "code_surface"
                 /\ out[4].what = "footer"
                 /\ out[4].n = Len(v.code_lines)
                 /\ out[4].a = v.code_scroll + 1
                 /\ out[4].b = Min(v.code_scroll + visible_lines,
                                   Len(v.code_lines))
                 /\ [i \in 1..Len(out[3].rows) |-> out[3].rows[i].line] =
                        [i \in 1..Max(0, out[4].b - out[4].a + 1) |->
                            v.code_lines[out[4].a + i - 1]]
            ELSE /\ raised' = "none"
                 /\ out = <<>>]_vars

\* The alphas of the rows of a surface.
RowAlphas(v) ==
    [i \in 1..Len(v.code_surface.rows) |-> v.code_surface.rows[i].alpha]

Increasing(s) == \A i \in 1..(Len(s) - 1) : s[i] < s[i + 1]
Decreasing(s) == \A i \in 1..(Len(s) - 1) : s[i] > s[i + 1]

\* C12, as claimed: in a full window of 15 rows the alpha of row 0 is 0, that
\* of row 7 is 255 and that of row 14 is near 0 (under a tenth of 255); the
\* alphas rise from 0 to 255 over the rows of the top fifth and the row after
\* them, are 255 over the middle, and fall from 255 to near 0 over the row
\* before the bottom fifth and its rows.
C12_FadeReachesZeroAtBothEdges ==
    Len(code_viewer.code_surface.rows) = visible_lines =>
        LET a == RowAlphas(code_viewer) IN
        /\ a[1] = 0 /\ a[8] = 255 /\ 10 * a[15] <= 255
        /\ Increasing(SubSeq(a, 1, 4)) /\ a[4] = 255
        /\ \A i \in 4..13 : a[i] = 255
        /\ Decreasing(SubSeq(a, 13, 15))

\* C12, amended: the alphas of the rows 0..14 of a surface are 0, 85, 170,
\* ten times 255, 169 and 84, as far as the surface has rows: the fade rises
\* from 0 on the first row, and falls to a third of 255 on the last one.
C12_FadeByRowPosition ==
    code_viewer.code_surface.created =>
        RowAlphas(code_viewer) =
            SubSeq(<<0, 85, 170, 255, 255, 255, 255, 255, 255, 255, 255, 255,
                     255, 169, 84>>,
                   1, Len(code_viewer.code_surface.rows))

\* A full window, made by a scroll step, faded at both edges.
C12_Witness ==
    /\ last.op = "handle_events" /\ last.arg = KeyDown("K_j")
    /\ code_viewer.code_surface.new
    /\ Len(code_viewer.code_surface.rows) = visible_lines
    /\ code_viewer.code_surface.rows[1].alpha = 0
    /\ code_viewer.code_surface.rows[8].alpha = 255
    /\ code_viewer.code_surface.rows[15].alpha = 84

\* The highlighting rules, in their order: (1) the stripped line starts with
\* a definition keyword, (2) the line contains a control-flow keyword, (3) the
\* stripped line starts with a triple quote, (4) the line contains the comment
\* mark, (5) the line contains an operator; and the colour of each, the last
\* colour being that of a line no rule matches.
Matches(rule, line) ==
    CASE rule = 1 -> startswith(strip(line), Definitions)
      [] rule = 2 -> any_in(ControlFlow, line)
      [] rule = 3 -> startswith(strip(line), TripleQuotes)
      [] rule = 4 -> any_in(CommentMark, line)
      [] rule = 5 -> any_in(Operators, line)

RuleColors ==
    <<COLORS.accent, COLORS.Blue, COLORS.Purple, COLORS.highlight,
      COLORS.Green, COLORS.text>>

\* The first rule that matches each line of the classes' sources, 6 when none
\* does.
FirstRule ==
    [line \in {SourceLine(i) : i \in 1..Len(SourceFile)} |->
        IF \A rule \in 1..5 : ~Matches(rule, line) THEN 6
        ELSE CHOOSE rule \in 1..5 :
                /\ Matches(rule, line)
                /\ \A earlier \in 1..(rule - 1) : ~Matches(earlier, line)]

\* The text of the spec's example, line by line.
ExampleLines ==
    <<<<"d", "e", "f", " ", "f", "(", ")", ":">>,
      <<" ", " ", " ", " ", "p", "a", "s", "s">>,
      <<"#", " ", "n", "o", "t", "e">>,
      <<"x", " ", "=", " ", "1">>>>

\* C13: every row of a surface has the colour of the first rule of the chain
\* that matches its line, whatever later rules match too, and the default
\* colour when none does; the rows for 'def f():', '    pass', '# note',
\* 'x = 1' have the definition, default, comment and assignment colours.
C13_FirstMatchingRuleColours ==
    code_viewer.code_surface.created =>
        LET rows == code_viewer.code_surface.rows IN
        /\ \A i \in 1..Len(rows) :
              rows[i].color = RuleColors[FirstRule[rows[i].line]]
        /\ code_viewer.code_lines = ExampleLines =>
              \A i \in 1..Len(rows) :
                  rows[i].color =
                      <<COLORS.accent, COLORS.text, COLORS.highlight,
                        COLORS.Green>>[code_viewer.code_scroll + i]

\* A window that a repeat step has moved to the line 'y += 1  # b', which has
\* both the comment mark and an operator: it is in the comment colour.
C13_Witness ==
    /\ last.op = "update"
    /\ code_viewer.code_surface.new
    /\ code_viewer.code_scroll = 7
    /\ Len(code_viewer.code_surface.rows) = visible_lines
    /\ any_in(CommentMark, code_viewer.code_surface.rows[1].line)
    /\ any_in(Operators, code_viewer.code_surface.rows[1].line)
    /\ code_viewer.code_surface.rows[1].color = COLORS.highlight

\* The files of the directory, and the lessons returned, as sets.
FilesOfDir == {lessons_dir[i] : i \in 1..Len(lessons_dir)}
Returned == {lessons[i] : i \in 1..Len(lessons)}

\* The class name the naming convention gives a file.
PascalCase(file) ==
    LessonFiles[CHOOSE i \in 1..Len(LessonFiles) :
                    LessonFiles[i].stem = file.stem].pascal

\* A file is a valid lesson when its module loads and exposes a class of that
\* name which has draw and handle_events; LessonClass is that class.
ClassesNamed(file) == {c \in file.module.classes : c.name = PascalCase(file)}

IsValidLesson(file) ==
    /\ file.module.raises = "none"
    /\ \E c \in ClassesNamed(file) : {"draw", "handle_events"} \subseteq c.attrs

LessonClass(file) == CHOOSE c \in ClassesNamed(file) : TRUE

ValidFiles == {file \in FilesOfDir : IsValidLesson(file)}

LessonDemo ==
    Class(<<"l", "e", "s", "s", "o", "n", "_", "d", "e", "m", "o">>,
          <<"L", "e", "s", "s", "o", "n", "D", "e", "m", "o">>,
          {"handle_events", "update", "draw"})

\* C14: the classes load_lessons returns from the files are exactly the
\* lesson classes of the valid files: a class of a file is returned if and
\* only if the module loads, exposes a class with the PascalCase name of the
\* stem, and that class has draw and handle_events. A directory that holds
\* only a valid lesson_demo gives [LessonDemo].
C14_ReturnsExactlyTheValidLessons ==
    last.op = "load_lessons" =>
        /\ Returned \ {BaseLesson} = {LessonClass(file) : file \in ValidFiles}
        /\ \A file \in FilesOfDir :
              (\E c \in Returned : c.module = file.stem) <=> IsValidLesson(file)
        /\ FilesOfDir = {File(LessonDemo.module, Module("none", {LessonDemo}))}
              => lessons = <<LessonDemo>>

\* Three files: a valid lesson_demo, a module whose class has another name
\* and a module whose class lacks a method; only LessonDemo is returned.
C14_Witness ==
    /\ last.op = "load_lessons"
    /\ Len(lessons_dir) = 3
    /\ \E file \in FilesOfDir :
            /\ file.module.raises = "none"
            /\ ClassesNamed(file) = {}
    /\ \E file \in FilesOfDir :
            \E c \in ClassesNamed(file) : "draw" \notin c.attrs
    /\ lessons = <<LessonDemo>>

\* The files that fail: the import raises, or the module has no class of the
\* expected name.
FailingFiles ==
    {file \in FilesOfDir :
        file.module.raises # "none" \/ ClassesNamed(file) = {}}

LinesFor(file) == {k \in 1..Len(stdout) : stdout[k].file = filename(file)}

\* C16: load_lessons prints one line for every file it skips, whether the
\* import raised, the module has no class of the expected name, or the class
\* lacks draw or handle_events; and the lines stand in the order of the scan.
C16_EverySkippedFileIsLogged ==
    last.op = "load_lessons" =>
        /\ \A file \in FilesOfDir \ ValidFiles :
              Cardinality(LinesFor(file)) = 1
        /\ \A i, j \in 1..Len(stdout) :
              i < j => Less(stdout[i].file, stdout[j].file)

\* C17: load_lessons never returns an empty list: without a valid file it
\* returns the list that holds BaseLesson and nothing else, and with one or
\* more valid files a list without BaseLesson.
C17_FallbackOnlyWhenNothingIsValid ==
    last.op = "load_lessons" =>
        /\ Len(lessons) >= 1
        /\ ValidFiles = {} => lessons = <<BaseLesson>>
        /\ ValidFiles # {} => BaseLesson \notin Returned

\* Three files that fail in the three ways: the fallback alone is returned.
C17_Witness ==
    /\ last.op = "load_lessons"
    /\ Len(lessons_dir) = 3
    /\ \E file \in FilesOfDir : file.module.raises # "none"
    /\ \E file \in FilesOfDir :
            file.module.raises = "none" /\ ClassesNamed(file) = {}
    /\ \E file \in FilesOfDir :
            \E c \in ClassesNamed(file) : "handle_events" \notin c.attrs
    /\ lessons = <<BaseLesson>>

\* The file of a returned lesson class.
FileOf(lesson_class) == lesson_class.module \o <<".", "p", "y">>

\* C18: with a valid file in the directory, the list returned holds one class
\* per valid file, in ascending order of the file names, and is the same
\* for every order in which the directory can list its files; the slideshow
\* starts at index 0, the lesson of the first of these file names.
C18_LessonsInFilenameOrder ==
    (last.op = "load_lessons" /\ ValidFiles # {}) =>
        /\ Len(lessons) = Cardinality(ValidFiles)
        /\ \A i, j \in 1..Len(lessons) :
              i < j => Less(FileOf(lessons[i]), FileOf(lessons[j]))
        /\ \A listing \in glob(FilesOfDir) :
              load_lessons(listing).lessons = lessons
        /\ current_lesson_index = 0
        /\ \A file \in ValidFiles :
              ~Less(filename(file), FileOf(lessons[current_lesson_index + 1]))

\* Three valid files that the directory lists in descending order: the list
\* begins with the lesson of lesson_01_comet.py.
C18_Witness ==
    /\ last.op = "load_lessons"
    /\ Len(lessons_dir) = 3
    /\ \A i \in 1..2 :
            Less(filename(lessons_dir[i + 1]), filename(lessons_dir[i]))
    /\ Len(lessons) = 3
    /\ lessons[1].name = LessonFiles[1].pascal

\* --------------------------------------------------------------- C19

\* C19: while a lesson's code viewer is visible, an event offered to the
\* lesson's handle_events changes at most the viewer: every attribute of the
\* lesson itself (colour, balls, gravity, elasticity, game_active, movement
\* flags, platform position, pressed key) is the same after the call, for
\* each of the six lesson classes.
C19_InputSuppressedWhileVisible ==
    [][(last'.op = "handle_events" /\ code_viewer.show_code)
            => lesson' = lesson]_vars

\* --------------------------------------------------------------- C20

\* What a frame has drawn, by name and in order.
FrameDrawn == [i \in 1..Len(last.out) |-> last.out[i].what]

\* C20: in every frame the control-hint line is rendered if and only if the
\* code viewer is hidden, and in a frame where the viewer is visible its
\* overlay, container, code and footer are the last things drawn: no lesson
\* content, no hint and no position dot comes after them.
C20_ViewerDrawnLast ==
    (last.op = "draw" /\ raised = "none") =>
        /\ (\E i \in 1..Len(FrameDrawn) : FrameDrawn[i] = "hint")
                <=> ~code_viewer.show_code
        /\ code_viewer.show_code =>
                /\ Len(FrameDrawn) >= 4
                /\ SubSeq(FrameDrawn, Len(FrameDrawn) - 3, Len(FrameDrawn))
                        = <<"overlay", "container", "code_surface", "footer">>

\* --------------------------------------------------------------- C21

\* The shell after n presses of key, one after the other.
RECURSIVE Presses(_, _, _)
Presses(st, key, n) ==
    IF n = 0 THEN st
    ELSE Presses(run_event(st, KeyDown(key), MaxElapsed), key, n - 1)

CurrentShell ==
    Shell(lesson, code_viewer, raised, current_lesson_index, running)

\* C21: the index of the current lesson is always an index of the list;
\* the right arrow goes to the next lesson, and from the last one to the
\* first; the left arrow goes to the lesson before, and from the first one
\* to the last; as many presses of one arrow as there are lessons lead
\* back to the lesson they started from.
C21_NavigationIsCircular ==
    /\ [](0 <= current_lesson_index /\ current_lesson_index < Len(lessons))
    /\ [][(last'.op = "event" /\ last'.arg = KeyDown("K_RIGHT")) =>
            current_lesson_index' =
                IF current_lesson_index = Len(lessons) - 1 THEN 0
                ELSE current_lesson_index + 1]_vars
    /\ [][(last'.op = "event" /\ last'.arg = KeyDown("K_LEFT")) =>
            current_lesson_index' =
                IF current_lesson_index = 0 THEN Len(lessons) - 1
                ELSE current_lesson_index - 1]_vars
    /\ [](\A key \in {"K_RIGHT", "K_LEFT"} :
            Presses(CurrentShell, key, Len(lessons)).index
                = current_lesson_index)

\* The left arrow has led from the first of three lessons to the last.
C21_Witness ==
    /\ Len(lessons) = 3
    /\ last.op = "event"
    /\ last.arg = KeyDown("K_LEFT")
    /\ current_lesson_index = 2

\* --------------------------------------------------------------- C22

\* The class of the current lesson.
CurrentClass == lessons[current_lesson_index + 1]

\* C22: after every press of an arrow key the current lesson is a new
\* instance of the class at the new index, in the state its constructor
\* leaves it in, with a viewer that is hidden, does not scroll and stands at
\* line 0, whatever the lesson and the viewer were before, also when the
\* list holds one lesson; at all times the current lesson is of the class at
\* current_lesson_index and its viewer holds the source of that class.
C22_NavigationStartsFreshInstance ==
    /\ [][(last'.op = "event"
            /\ last'.arg \in {KeyDown("K_RIGHT"), KeyDown("K_LEFT")}) =>
            /\ lesson' = NewLesson(lessons[current_lesson_index' + 1].kind)
            /\ ~code_viewer'.show_code
            /\ code_viewer'.scroll_direction = 0
            /\ code_viewer'.code_scroll = 0]_vars
    /\ [](/\ lesson.kind = CurrentClass.kind
          /\ code_viewer.code_lines = SourceLines[CurrentClass.n])

\* An arrow key has been pressed where the list holds a single lesson.
C22_Witness ==
    /\ Len(lessons) = 1
    /\ last.op = "event"
    /\ last.arg = KeyDown("K_RIGHT")
    /\ lesson = NewLesson(CurrentClass.kind)
    /\ ~code_viewer.show_code

\* --------------------------------------------------------------- C24

\* C24: in Lesson03Input no event that arrives while the viewer is visible
\* sets active_key, the press of the toggle key that hides the viewer
\* included; the press that shows the viewer does not set it either, and
\* active_key is never one of the keys left, right and q.
C24_NoKeyDetectedWhileVisible ==
    /\ [][(/\ last'.op = "handle_events"
           /\ lesson.kind = "Lesson03Input"
           /\ (code_viewer.show_code \/ code_viewer'.show_code))
            => lesson'.active_key = lesson.active_key]_vars
    /\ [](lesson.kind = "Lesson03Input"
            => lesson.active_key \notin {"K_LEFT", "K_RIGHT", "K_q"})

\* --------------------------------------------------------------- C25

\* C25: while the viewer is hidden code_scroll does not change, whatever
\* is called on the viewer (events, update, a scroll key held since
\* before it was hidden); the step that shows the viewer again leaves
\* code_scroll as it was when the viewer was hidden.
C25_HiddenViewerKeepsScroll ==
    [][~code_viewer.show_code
        => code_viewer'.code_scroll = code_viewer.code_scroll]_vars

\* --------------------------------------------------------------- C28

\* The direction a scroll key scrolls in.
DirectionOf(key) == IF key = "K_j" THEN 1 ELSE -1

\* C28: on a visible viewer that is scrolling with both scroll keys held,
\* the release of one of them leaves scroll_direction at the direction of
\* the key that is still held; scroll_direction does not stop while a
\* scroll key is held.
C28_DirectionOfKeyStillHeld ==
    [][(/\ last'.op = "handle_events"
        /\ last'.arg.type = "KEYUP"
        /\ code_viewer.show_code
        /\ keys_down = ScrollKeys
        /\ code_viewer.scroll_direction # 0)
        => \A key \in keys_down' :
                code_viewer'.scroll_direction = DirectionOf(key)]_vars

\* --------------------------------------------------------------- C27

\* What Slideshow.run calls on the current lesson in every frame.
FrameOperations == {"handle_events", "update", "draw"}

\* C27: every class load_lessons returns has the three operations the frame
\* loop calls on the current lesson: handle_events, update and draw.
C27_LoadedLessonsHaveFrameOperations ==
    last.op = "load_lessons" =>
        \A i \in 1..Len(lessons) : FrameOperations \subseteq lessons[i].attrs

\* --------------------------------------------------------------- C26

\* C26: while the viewer of a lesson is visible, update changes nothing of
\* the lesson, in each of the six lesson classes: the lesson after update
\* is the lesson before it (but for the time that has passed on the clock).
C26_UpdatePausedWhileVisible ==
    [][(last'.op = "update" /\ code_viewer.show_code)
        => \E dt \in LessonMs : lesson' = LessonLater(lesson, dt)]_vars

\* --------------------------------------------------------------- C23

\* C23: SPACE pressed when the game is over (lives <= 0) is a full reset:
\* afterwards lives = 3, score = 0, the game is active, the ball is at its
\* reset position and the list of bricks is the initial field, brick_rows x
\* brick_cols bricks, all visible.
C23_SpaceOnGameOverIsFullReset ==
    [][(last'.op = "handle_events" /\ lesson.lives <= 0)
        => /\ lesson'.lives = StartLives
           /\ lesson'.score = 0
           /\ lesson'.game_active
           /\ lesson'.ball = "reset"
           /\ lesson'.bricks = brick_rows * brick_cols
           /\ lesson'.visible = "all"]_vars

\* --------------------------------------------------------------- C29

\* C29: always 0 <= lives <= 3, and an active game has lives left; an update
\* takes one life at most, and only when the ball is below the bottom edge
\* (it is then put back, or the game is over); the update that takes the
\* last life ends the game; an update of a game that is not active changes
\* nothing.
C29_LivesAndGameOver ==
    /\ [](/\ lesson.lives \in 0..StartLives
          /\ lesson.game_active => lesson.lives > 0)
    /\ [][last'.op = "update"
            => /\ lesson'.lives \in {lesson.lives, lesson.lives - 1}
               /\ lesson'.lives < lesson.lives
                    => lesson'.ball \in {"reset", "below"}
               /\ lesson'.ball = "below" => lesson'.lives = lesson.lives - 1
               /\ (lesson'.lives = 0 /\ lesson.lives > 0)
                    => ~lesson'.game_active
               /\ ~lesson.game_active => lesson' = lesson]_vars

\* The last life has just been lost: the game is over.
C29_Witness ==
    /\ last.op = "update"
    /\ lesson.lives = 0
    /\ ~lesson.game_active
    /\ lesson.ball = "below"

\* --------------------------------------------------------------- C30

\* C30: the paddle is always entirely on the screen, whatever keys are held
\* in the updates and whatever the width of the screen:
\* 0 <= paddle.x <= width - paddle.width.
C30_PaddleStaysOnScreen ==
    /\ 0 <= lesson.paddle_x
    /\ lesson.paddle_x <= lesson.width - paddle_width(lesson.width)

====
